---- MODULE Spec2Model ----
(***************************************************************************)
(* Model of the review backend: ReviewService.parse_llm_response and       *)
(* ReviewService.review_code (app/services/review_service.py), the models  *)
(* of app/models/review.py, the gateway of app/services/ollama_service.py, *)
(* the review routes of app/routes/review_routes.py, FixService            *)
(* (app/services/fix_service.py) and the command line of cli.py.           *)
(*                                                                         *)
(* Text is a sequence of symbols.  A symbol is one character ("{", ":",    *)
(* "j", ...) or a run of letters or digits that no operation of the code   *)
(* splits (a word such as "findings", a number such as "3").  Indices are  *)
(* Python's: 0-based, slices are half-open.                                *)
(***************************************************************************)
EXTENDS Integers, Sequences, FiniteSets, TLC

DQ == "\""
BS == "\\"
SP == " "
NL == "\n"
\* the backtick character
BT == "backtick"
\* typographic quotation marks: U+201C, U+201D, U+2018, U+2019
LDQ == "u201C"
RDQ == "u201D"
LSQ == "u2018"
RSQ == "u2019"
SQ == "'"

Whitespace == {SP, NL}

Fence == <<BT, BT, BT>>
FenceJson == <<BT, BT, BT, "j", "s", "o", "n">>
JsonTag == <<"j", "s", "o", "n">>

-----------------------------------------------------------------------------
(* Python str primitives used by the code *)

Min(S) == CHOOSE x \in S : \A y \in S : x <= y
Max(S) == CHOOSE x \in S : \A y \in S : x >= y

\* s[i]
At(s, i) == s[i + 1]

\* s[a:b] for 0 <= a
Slice(s, a, b) ==
    LET hi == IF b > Len(s) THEN Len(s) ELSE b
    IN  IF a >= hi THEN <<>> ELSE SubSeq(s, a + 1, hi)

\* s[a:]
SliceFrom(s, a) == Slice(s, a, Len(s))

\* s.find(sub, start)
FindFrom(s, sub, start) ==
    LET hits == {i \in start..(Len(s) - Len(sub)) : Slice(s, i, i + Len(sub)) = sub}
    IN  IF hits = {} THEN -1 ELSE Min(hits)

\* s.find(sub)
Find(s, sub) == FindFrom(s, sub, 0)

\* s.rfind(sub)
RFind(s, sub) ==
    LET hits == {i \in 0..(Len(s) - Len(sub)) : Slice(s, i, i + Len(sub)) = sub}
    IN  IF hits = {} THEN -1 ELSE Max(hits)

\* sub in s
Contains(s, sub) == Find(s, sub) # -1

\* s.startswith(p)
StartsWith(s, p) == Len(s) >= Len(p) /\ Slice(s, 0, Len(p)) = p

\* s.strip()
Strip(s) ==
    LET keep == {i \in 0..(Len(s) - 1) : At(s, i) \notin Whitespace}
    IN  IF keep = {} THEN <<>> ELSE Slice(s, Min(keep), Max(keep) + 1)

\* s.replace(old, new) for a one-character old
Replace(s, old, new) == [i \in 1..Len(s) |-> IF s[i] = old THEN new ELSE s[i]]

RECURSIVE ReplaceSeq(_, _, _)
\* s.replace(old, new) for a one-character old and a string new, one
\* occurrence of old at a time
ReplaceSeq(s, old, new) ==
    LET i == Find(s, <<old>>)
    IN  IF i = -1 THEN s
        ELSE Slice(s, 0, i) \o new \o ReplaceSeq(SliceFrom(s, i + 1), old, new)

RECURSIVE Split(_, _)
\* s.split(sep) for a one-character sep
Split(s, sep) ==
    LET hits == {i \in 1..Len(s) : s[i] = sep}
    IN  IF hits = {} THEN <<s>>
        ELSE <<SubSeq(s, 1, Min(hits) - 1)>> \o Split(SubSeq(s, Min(hits) + 1, Len(s)), sep)

\* s.split(sep, 1)
SplitOnce(s, sep) ==
    LET i == Find(s, sep)
    IN  IF i = -1 THEN <<s>> ELSE <<Slice(s, 0, i), SliceFrom(s, i + Len(sep))>>

RECURSIVE Join(_, _)
\* sep.join(parts)
Join(parts, sep) ==
    IF Len(parts) = 0 THEN <<>>
    ELSE IF Len(parts) = 1 THEN parts[1]
    ELSE parts[1] \o <<sep>> \o Join(Tail(parts), sep)

-----------------------------------------------------------------------------
(* parse_llm_response, lines 202-243: fence stripping and brace matching *)

\* lines 204-216
StripFences(response) ==
    IF Contains(response, FenceJson)
    THEN LET start == Find(response, FenceJson) + 7
             end == FindFrom(response, Fence, start)
         IN  IF end > start THEN Strip(Slice(response, start, end)) ELSE response
    ELSE IF Contains(response, Fence)
    THEN LET start == Find(response, Fence) + 3
             end == FindFrom(response, Fence, start)
             r1 == IF end > start THEN Strip(Slice(response, start, end)) ELSE response
         IN  IF StartsWith(r1, JsonTag) THEN Strip(SliceFrom(r1, 4)) ELSE r1
    ELSE response

Braces == {"{", "}"}

\* the index of the first brace of response at or after i, -1 without one
NextBrace(response, i) ==
    LET braces == {k \in i..(Len(response) - 1) : response[k + 1] \in Braces}
    IN  IF braces = {} THEN -1 ELSE Min(braces)

RECURSIVE BraceScan(_, _, _, _)
\* the for loop of lines 234-241 from index i on, taken from one brace to
\* the next (the other characters change nothing); end_idx is the value
\* assigned so far
BraceScan(response, i, brace_count, end_idx) ==
    LET k == NextBrace(response, i)
    IN  IF k = -1 THEN end_idx
        ELSE IF At(response, k) = "{"
        THEN BraceScan(response, k + 1, brace_count + 1, end_idx)
        ELSE IF brace_count - 1 = 0 THEN k + 1
        ELSE BraceScan(response, k + 1, brace_count - 1, end_idx)

\* ExtractCandidate that ends the candidate at the last closing brace of the text
ExtractCandidateGreedy(response, start_idx) ==
    Slice(response, start_idx, RFind(response, <<"}">>) + 1)

\* lines 232-243: json_str = response[start_idx:end_idx]
ExtractCandidate(response, start_idx) ==
    Slice(response, start_idx, BraceScan(response, start_idx, 0, start_idx))

-----------------------------------------------------------------------------
(* json.loads (line 256, line 297) over the symbol alphabet.  A JSON value  *)
(* is [t, v]: t the type, v the content (symbols of a string, the lexeme of *)
(* a number, the elements of an array, the key/value pairs of an object).   *)

JNull == [t |-> "null", v |-> <<>>]
JStr(w) == [t |-> "str", v |-> w]
JNum(tok) == [t |-> "num", v |-> <<tok>>]
JBool(tok) == [t |-> "bool", v |-> <<tok>>]
JArr(vals) == [t |-> "arr", v |-> vals]
JObj(pairs) == [t |-> "obj", v |-> pairs]

\* number lexemes of the alphabet; 1e999 is read by Python as float inf
IntTokens == {"0", "1", "2", "3", "-1", "7", "90"}
FloatTokens == {"1e999"}
NumTokens == IntTokens \cup FloatTokens

\* a successful scan: the value and the index after it
Scanned(val, end) == [ok |-> TRUE, val |-> val, end |-> end, msg |-> ""]
\* json.JSONDecodeError(msg, doc, pos)
JSONDecodeError(msg, pos) == [ok |-> FALSE, val |-> JNull, end |-> pos, msg |-> msg]

\* s[i:i+1]
Ch(s, i) == IF i < Len(s) THEN At(s, i) ELSE ""

\* WHITESPACE.match(s, i).end()
SkipWs(s, i) ==
    IF i < Len(s) /\ s[i + 1] \notin Whitespace THEN i
    ELSE LET stops == {j \in i..(Len(s) - 1) : s[j + 1] \notin Whitespace}
         IN  IF stops = {} THEN (IF i > Len(s) THEN i ELSE Len(s)) ELSE Min(stops)

\* what ends a chunk of a string: a quote, a backslash, a control character
StringStops == {DQ, BS, NL}

RECURSIVE ScanStringLoop(_, _, _, _)
\* json.decoder scanstring: the string body from index end, opened at
\* begin; as STRINGCHUNK does, a chunk is taken up to the next quote,
\* backslash or control character
ScanStringLoop(s, end, begin, acc) ==
    LET stops == {j \in end..(Len(s) - 1) : s[j + 1] \in StringStops}
        t == Min(stops)
        chunk == acc \o Slice(s, end, t)
    IN  IF stops = {} THEN JSONDecodeError("Unterminated string starting at", begin)
        ELSE IF At(s, t) = DQ THEN Scanned(JStr(chunk), t + 1)
        ELSE IF At(s, t) = NL THEN JSONDecodeError("Invalid control character at", t)
        ELSE IF t + 1 >= Len(s) THEN JSONDecodeError("Unterminated string starting at", begin)
        ELSE IF At(s, t + 1) \in {DQ, BS}
        THEN ScanStringLoop(s, t + 2, begin, Append(chunk, At(s, t + 1)))
        ELSE IF At(s, t + 1) = "n"
        THEN ScanStringLoop(s, t + 2, begin, Append(chunk, NL))
        ELSE JSONDecodeError("Invalid \\escape", t)

ScanString(s, end) == ScanStringLoop(s, end, end - 1, <<>>)

RECURSIVE ScanOnce(_, _)
RECURSIVE ObjectLoop(_, _, _)
RECURSIVE ArrayLoop(_, _, _)

\* json.decoder JSONObject: the member loop, end just after a key's opening quote
ObjectLoop(s, end, pairs) ==
    LET key == ScanString(s, end)
    IN  IF ~key.ok THEN key
        ELSE
        LET e1 == IF Ch(s, key.end) # ":" THEN SkipWs(s, key.end) ELSE key.end
        IN  IF Ch(s, e1) # ":" THEN JSONDecodeError("Expecting ':' delimiter", e1)
            ELSE
            LET value == ScanOnce(s, SkipWs(s, e1 + 1))
            IN  IF ~value.ok THEN value
                ELSE
                LET pairs2 == Append(pairs, [k |-> key.val.v, val |-> value.val])
                    e2 == SkipWs(s, value.end)
                    nextchar == Ch(s, e2)
                IN  IF nextchar = "}" THEN Scanned(JObj(pairs2), e2 + 1)
                    ELSE IF nextchar # ","
                    THEN JSONDecodeError("Expecting ',' delimiter", e2)
                    ELSE
                    LET e3 == SkipWs(s, e2 + 1)
                    IN  IF Ch(s, e3) # DQ
                        THEN JSONDecodeError("Expecting property name enclosed in double quotes", e3)
                        ELSE ObjectLoop(s, e3 + 1, pairs2)

\* json.decoder JSONObject, end just after the opening brace
JSONObject(s, end) ==
    LET e1 == IF Ch(s, end) # DQ THEN SkipWs(s, end) ELSE end
        nextchar == Ch(s, e1)
    IN  IF nextchar = "}" THEN Scanned(JObj(<<>>), e1 + 1)
        ELSE IF nextchar # DQ
        THEN JSONDecodeError("Expecting property name enclosed in double quotes", e1)
        ELSE ObjectLoop(s, e1 + 1, <<>>)

\* json.decoder JSONArray: the element loop
ArrayLoop(s, end, vals) ==
    LET value == ScanOnce(s, end)
    IN  IF ~value.ok THEN value
        ELSE
        LET vals2 == Append(vals, value.val)
            e2 == SkipWs(s, value.end)
            nextchar == Ch(s, e2)
        IN  IF nextchar = "]" THEN Scanned(JArr(vals2), e2 + 1)
            ELSE IF nextchar # "," THEN JSONDecodeError("Expecting ',' delimiter", e2)
            ELSE ArrayLoop(s, SkipWs(s, e2 + 1), vals2)

\* json.decoder JSONArray, end just after the opening bracket
JSONArray(s, end) ==
    LET e1 == SkipWs(s, end)
    IN  IF Ch(s, e1) = "]" THEN Scanned(JArr(<<>>), e1 + 1)
        ELSE ArrayLoop(s, e1, <<>>)

\* json.scanner scan_once; StopIteration(idx) surfaces as "Expecting value"
ScanOnce(s, idx) ==
    LET nextchar == Ch(s, idx)
    IN  IF nextchar = DQ THEN ScanString(s, idx + 1)
        ELSE IF nextchar = "{" THEN JSONObject(s, idx + 1)
        ELSE IF nextchar = "[" THEN JSONArray(s, idx + 1)
        ELSE IF nextchar = "null" THEN Scanned(JNull, idx + 1)
        ELSE IF nextchar \in {"true", "false"} THEN Scanned(JBool(nextchar), idx + 1)
        ELSE IF nextchar \in NumTokens THEN Scanned(JNum(nextchar), idx + 1)
        ELSE JSONDecodeError("Expecting value", idx)

\* json.loads(s): one value, then only whitespace
JsonLoads(s) ==
    LET r == ScanOnce(s, SkipWs(s, 0))
    IN  IF ~r.ok THEN r
        ELSE IF SkipWs(s, r.end) # Len(s) THEN JSONDecodeError("Extra data", SkipWs(s, r.end))
        ELSE r

-----------------------------------------------------------------------------
(* parse_llm_response, lines 263-294: the repair pass *)

\* lines 264-265: as written, every replace maps a straight quote to itself
Fix1(json_str) ==
    LET a == Replace(Replace(json_str, DQ, DQ), DQ, DQ)
    IN  Replace(Replace(a, SQ, SQ), SQ, SQ)

\* lines 275-292: one line of the candidate
FixLine(line) ==
    IF Contains(line, <<DQ, ":", SP, DQ>>) \/ Contains(line, <<DQ, ":", DQ>>)
    THEN LET parts == SplitOnce(line, <<DQ, ":", SP, DQ>>)
         IN  IF Len(parts) = 2
             THEN LET key_part == parts[1]
                      value_part == parts[2]
                  IN  IF Contains(value_part, <<DQ, ",">>) \/ Contains(value_part, <<DQ, "}">>)
                      THEN LET e1 == RFind(value_part, <<DQ, ",">>)
                               value_end == IF e1 = -1 THEN RFind(value_part, <<DQ, "}">>) ELSE e1
                           IN  IF value_end > 0
                               THEN key_part \o <<DQ, ":", SP, DQ>>
                                    \o ReplaceSeq(Slice(value_part, 0, value_end), DQ, <<BS, DQ>>)
                                    \o SliceFrom(value_part, value_end)
                               ELSE line
                      ELSE line
             ELSE line
    ELSE line

\* lines 271-294
Fix2(json_str) ==
    LET lines == Split(json_str, NL)
    IN  Join([i \in 1..Len(lines) |-> FixLine(lines[i])], NL)

Repair(json_str) == Fix2(Fix1(json_str))

-----------------------------------------------------------------------------
(* app/models/review.py *)

SeverityLevel == {"critical", "high", "medium", "low", "info"}

\* None as a field value
None == JNull

\* dict.get(key, default): the last pair of that key wins, as in dict(pairs)
DictGet(obj, key, default) ==
    LET hits == {i \in 1..Len(obj.v) : obj.v[i].k = <<key>>}
    IN  IF hits = {} THEN default ELSE obj.v[Max(hits)].val

\* field types of Finding and ReviewResponse (pydantic validation)
IsStr(x) == x.t = "str"
IsOptStr(x) == x.t \in {"str", "null"}
IsOptInt(x) == x.t = "null" \/ (x.t = "num" /\ x.v[1] \in IntTokens)
IsOptStrList(x) == x.t = "null" \/ (x.t = "arr" /\ \A i \in 1..Len(x.v) : x.v[i].t = "str")
IsOptDict(x) == x.t \in {"obj", "null"}

\* IsSeverity that lets a null severity pass
IsSeverityOrNull(x) == x.t = "null" \/ (x.t = "str" /\ Len(x.v) = 1 /\ x.v[1] \in SeverityLevel)

\* SeverityLevel(value) succeeds
IsSeverity(x) == x.t = "str" /\ Len(x.v) = 1 /\ x.v[1] \in SeverityLevel

\* FindingArgs with f.get(key) for the text fields: a missing one is None
FindingArgsNoDefaults(f) ==
    [line_number |-> DictGet(f, "line_number", None),
     severity |-> DictGet(f, "severity", JStr(<<"info">>)),
     category |-> DictGet(f, "category", None),
     title |-> DictGet(f, "title", None),
     description |-> DictGet(f, "description", None),
     suggestion |-> DictGet(f, "suggestion", None),
     code_snippet |-> DictGet(f, "code_snippet", None),
     fix_code |-> DictGet(f, "fix_code", None),
     documentation_link |-> DictGet(f, "documentation_link", None),
     severity_reason |-> DictGet(f, "severity_reason", None),
     examples |-> DictGet(f, "examples", None),
     best_practice |-> DictGet(f, "best_practice", None),
     effort_minutes |-> DictGet(f, "effort_minutes", None),
     dimensions |-> DictGet(f, "dimensions", None)]

\* lines 316-331: the keyword arguments handed to Finding(...)
FindingArgs(f) ==
    [line_number |-> DictGet(f, "line_number", None),
     severity |-> DictGet(f, "severity", JStr(<<"info">>)),
     category |-> DictGet(f, "category", JStr(<<"other">>)),
     title |-> DictGet(f, "title", JStr(<<>>)),
     description |-> DictGet(f, "description", JStr(<<>>)),
     suggestion |-> DictGet(f, "suggestion", JStr(<<>>)),
     code_snippet |-> DictGet(f, "code_snippet", None),
     fix_code |-> DictGet(f, "fix_code", None),
     documentation_link |-> DictGet(f, "documentation_link", None),
     severity_reason |-> DictGet(f, "severity_reason", None),
     examples |-> DictGet(f, "examples", None),
     best_practice |-> DictGet(f, "best_practice", None),
     effort_minutes |-> DictGet(f, "effort_minutes", None),
     dimensions |-> DictGet(f, "dimensions", None)]

\* Finding(**args) validates (review.py lines 14-29)
FindingValid(a) ==
    /\ IsOptInt(a.line_number)
    /\ IsSeverity(a.severity)
    /\ IsStr(a.category) /\ IsStr(a.title) /\ IsStr(a.description) /\ IsStr(a.suggestion)
    /\ IsOptStr(a.code_snippet) /\ IsOptStr(a.fix_code) /\ IsOptStr(a.documentation_link)
    /\ IsOptStr(a.severity_reason) /\ IsOptStrList(a.examples) /\ IsOptStr(a.best_practice)
    /\ IsOptInt(a.effort_minutes) /\ IsOptDict(a.dimensions)

\* lines 316-335: Finding(**a) is appended, or it raised and the element is skipped
Validated(a) == IF FindingValid(a) THEN <<a>> ELSE <<>>

\* lines 315-335: the body of the loop for one element f; <<>> when it is skipped
OneFinding(f) == IF f.t # "obj" THEN <<>> ELSE Validated(FindingArgs(f))

\* CollectFindings with the try around the whole loop: one bad element ends the batch
CollectFindingsAborting(elems) ==
    IF \E i \in 1..Len(elems) : OneFinding(elems[i]) = <<>> THEN <<>>
    ELSE [i \in 1..Len(elems) |-> OneFinding(elems[i])[1]]

RECURSIVE CollectFindings(_)
\* lines 313-335: the loop over the elements
CollectFindings(elems) ==
    IF elems = <<>> THEN <<>>
    ELSE OneFinding(Head(elems)) \o CollectFindings(Tail(elems))

\* what iterating data.get("findings", []) yields; null, numbers and booleans are not iterable
Iterable(x) == x.t \in {"arr", "str", "obj"}
Elements(x) ==
    IF x.t = "arr" THEN x.v
    ELSE IF x.t = "str" THEN [i \in 1..Len(x.v) |-> JStr(<<x.v[i]>>)]
    ELSE [i \in 1..Len(x.v) |-> JStr(x.v[i].k)]

\* token_usage of a ReviewResponse: unset (None) or the three counters
NoTokenUsage == [set |-> FALSE, prompt_tokens |-> 0, completion_tokens |-> 0, total_tokens |-> 0]

\* ReviewResponse(...) (review.py lines 40-47)
ReviewResponse(file_path, language, findings, summary, total_issues) ==
    [file_path |-> file_path, language |-> language, findings |-> findings,
     summary |-> summary, total_issues |-> total_issues, token_usage |-> NoTokenUsage]

\* the placeholder of a call that returned nothing because it raised
NoResponse == ReviewResponse("", "", <<>>, <<>>, -1)

-----------------------------------------------------------------------------
(* ReviewService.parse_llm_response, lines 199-353 *)

\* a json.loads that was not reached
NotAttempted == [ok |-> FALSE, val |-> JNull, end |-> -1, msg |-> "not attempted"]

\* doc.count("\n", 0, pos) + 1
LineNo(doc, pos) == Cardinality({i \in 0..(pos - 1) : i < Len(doc) /\ At(doc, i) = NL}) + 1

\* pos - doc.rindex("\n", 0, pos), or pos + 1 on the first line
ColNo(doc, pos) ==
    LET nls == {i \in 0..(pos - 1) : i < Len(doc) /\ At(doc, i) = NL}
    IN  IF nls = {} THEN pos + 1 ELSE pos - Max(nls)

\* str(e) of a JSONDecodeError raised on doc
ErrStr(e, doc) ==
    <<e.msg, ": line ", ToString(LineNo(doc, e.end)), " column ", ToString(ColNo(doc, e.end)),
      " (char ", ToString(e.end), ")">>

NoJsonSummary == <<"Could not find JSON in response">>
ParseFailedSummary(e2, doc) ==
    <<"JSON parsing failed: ">> \o ErrStr(e2, doc) \o <<". Response may be truncated.">>
ExceptSummary(exc) == <<"Error parsing review: ", exc>>

\* the outcome of a call and what it went through: the text after fence
\* stripping, the candidate json_str, the two json.loads results and the
\* repaired candidate; created counts the ReviewResponse objects constructed
\* (a block that did not raise ended in one return ReviewResponse(...))
Outcome(raised, exc, resp, path, stripped, json_str, first, fixed, second) ==
    [raised |-> raised, exc |-> exc, resp |-> resp, path |-> path, stripped |-> stripped,
     json_str |-> json_str, first |-> first, fixed |-> fixed, second |-> second,
     created |-> IF raised THEN 0 ELSE 1]

\* what a block of the body did: it raised exc, or it produced resp
Raise(exc) == [raised |-> TRUE, exc |-> exc, resp |-> NoResponse]
Produce(resp) == [raised |-> FALSE, exc |-> "", resp |-> resp]

\* int(lexeme) of an integer lexeme
IntValue(tok) ==
    CASE tok = "0" -> 0 [] tok = "1" -> 1 [] tok = "2" -> 2 [] tok = "3" -> 3
      [] tok = "-1" -> -1 [] tok = "7" -> 7 [] tok = "90" -> 90

\* ParsedResponse that takes total_issues from the model's JSON when it has one
ParsedResponseTrusting(data, findings, summary, file_path, language) ==
    ReviewResponse(file_path, language, findings, summary,
                   IF DictGet(data, "total_issues", JNull).t = "num"
                      /\ DictGet(data, "total_issues", JNull).v[1] \in IntTokens
                   THEN IntValue(DictGet(data, "total_issues", JNull).v[1])
                   ELSE Len(findings))

\* lines 337-343
ParsedResponse(data, findings, summary, file_path, language) ==
    ReviewResponse(file_path, language, findings, summary, Len(findings))

\* lines 313-343, given data.get("findings", []) and data.get("summary", ...)
BuildFrom(data, raw, summary, file_path, language) ==
    IF ~Iterable(raw) THEN Raise("TypeError")
    ELSE IF ~IsStr(summary) THEN Raise("ValidationError")
    ELSE Produce(ParsedResponse(data, CollectFindings(Elements(raw)), summary.v,
                                file_path, language))

\* lines 313-343: data is the parsed object
BuildResponse(data, file_path, language) ==
    IF data.t # "obj" THEN Raise("AttributeError")
    ELSE BuildFrom(data, DictGet(data, "findings", JArr(<<>>)),
                   DictGet(data, "summary", JStr(<<"Review complete">>)),
                   file_path, language)

\* FailedResponse that reports the error of the first attempt
FailedResponseFirstError(first, json_str, second, fixed, file_path, language) ==
    ReviewResponse(file_path, language, <<>>, ParseFailedSummary(first, json_str), 0)

\* lines 300-311: the result when the repaired candidate does not parse either
FailedResponse(first, json_str, second, fixed, file_path, language) ==
    ReviewResponse(file_path, language, <<>>, ParseFailedSummary(second, fixed), 0)

\* the outcome of lines 313-343 on a path of the parser
Built(b, path, stripped, json_str, first, fixed, second) ==
    Outcome(b.raised, b.exc, b.resp, path, stripped, json_str, first, fixed, second)

\* lines 296-311: second is json.loads of the repaired candidate
AfterSecondParse(stripped, json_str, first, fixed, second, file_path, language) ==
    IF second.ok
    THEN Built(BuildResponse(second.val, file_path, language), "repaired",
               stripped, json_str, first, fixed, second)
    ELSE Outcome(FALSE, "",
                 FailedResponse(first, json_str, second, fixed, file_path, language),
                 "parse_failed", stripped, json_str, first, fixed, second)

\* lines 259-311: the strict parse failed; fixed is the repaired candidate
AfterRepair(stripped, json_str, first, fixed, file_path, language) ==
    AfterSecondParse(stripped, json_str, first, fixed, JsonLoads(fixed), file_path, language)

\* AfterFirstParse that repairs the candidate whether or not it parsed
AfterFirstParseEager(stripped, json_str, first, file_path, language) ==
    AfterRepair(stripped, json_str, first, Repair(json_str), file_path, language)

\* lines 255-343: first is json.loads of the candidate
AfterFirstParse(stripped, json_str, first, file_path, language) ==
    IF first.ok
    THEN Built(BuildResponse(first.val, file_path, language), "parsed",
               stripped, json_str, first, <<>>, NotAttempted)
    ELSE AfterRepair(stripped, json_str, first, Repair(json_str), file_path, language)

\* lines 243-343: json_str is the candidate
ParseCandidate(stripped, json_str, file_path, language) ==
    AfterFirstParse(stripped, json_str, JsonLoads(json_str), file_path, language)

\* lines 231-343: from the first brace on
ParseFrom(stripped, start_idx, file_path, language) ==
    ParseCandidate(stripped, ExtractCandidate(stripped, start_idx), file_path, language)

\* LocateObject without the test of line 220: a missing brace counts as index 0
LocateObjectUnguarded(stripped, start_idx, file_path, language) ==
    ParseFrom(stripped, IF start_idx = -1 THEN 0 ELSE start_idx, file_path, language)

\* lines 218-343: stripped is the text after fence stripping
LocateObject(stripped, start_idx, file_path, language) ==
    IF start_idx = -1
    THEN Outcome(FALSE, "", ReviewResponse(file_path, language, <<>>, NoJsonSummary, 0),
                 "no_json", stripped, <<>>, NotAttempted, <<>>, NotAttempted)
    ELSE ParseFrom(stripped, start_idx, file_path, language)

\* lines 218-343, with start_idx = response.find("{")
FromStripped(stripped, file_path, language) ==
    LocateObject(stripped, Find(stripped, <<"{">>), file_path, language)

\* lines 202-343: the body of the outer try
ParseBody(response, file_path, language) ==
    FromStripped(StripFences(response), file_path, language)

\* OuterExcept without the handler: what the body raised escapes
OuterExceptMissing(b, file_path, language) == b

\* lines 344-353: the outer except Exception
OuterExcept(b, file_path, language) ==
    IF b.raised
    THEN [b EXCEPT !.raised = FALSE, !.exc = "", !.path = "except",
                   !.resp = ReviewResponse(file_path, language, <<>>, ExceptSummary(b.exc), 0),
                   !.created = @ + 1]
    ELSE b

parse_llm_response(response, file_path, language) ==
    OuterExcept(ParseBody(response, file_path, language), file_path, language)

-----------------------------------------------------------------------------
(* OllamaService.generate_review, ollama_service.py lines 40-68.  reply is  *)
(* what client.generate did: it raised, or it answered with a text and two  *)
(* counters.                                                                *)

generate_review(reply) ==
    IF reply.raises
    THEN [response |-> <<"Error generating review: ", reply.exc>>, error |-> TRUE,
          eval_count |-> 0, prompt_eval_count |-> 0, total_tokens |-> 0]
    ELSE [response |-> reply.response, error |-> FALSE,
          eval_count |-> reply.eval_count, prompt_eval_count |-> reply.prompt_eval_count,
          total_tokens |-> reply.eval_count + reply.prompt_eval_count]

\* a call on which parse_llm_response was not invoked
NotParsed ==
    [Outcome(FALSE, "", NoResponse, "not_called", <<>>, <<>>, NotAttempted, <<>>, NotAttempted)
        EXCEPT !.created = 0]

\* int(value) of line 563 raises OverflowError on a float infinity
BarLengthRaises(value) == value.t = "num" /\ value.v[1] \in FloatTokens

\* _print_comprehensive_review (lines 458-605) raises
PrintReviewRaises(review) ==
    \E i \in 1..Len(review.findings) :
        LET dims == review.findings[i].dimensions
        IN  dims.t = "obj" /\ \E j \in 1..Len(dims.v) : BarLengthRaises(dims.v[j].val)

\* WithTokenUsage that also recounts total_issues from the completion tokens
WithTokenUsageRecounting(resp, llm_response) ==
    [resp EXCEPT !.token_usage =
        [set |-> TRUE,
         prompt_tokens |-> llm_response.prompt_eval_count,
         completion_tokens |-> llm_response.eval_count,
         total_tokens |-> llm_response.total_tokens],
                 !.total_issues = llm_response.eval_count]

\* lines 447-451
WithTokenUsage(resp, llm_response) ==
    [resp EXCEPT !.token_usage =
        [set |-> TRUE,
         prompt_tokens |-> llm_response.prompt_eval_count,
         completion_tokens |-> llm_response.eval_count,
         total_tokens |-> llm_response.total_tokens]]

\* lines 453-456: review is printed and returned
PrintAndReturn(p, review) ==
    IF PrintReviewRaises(review)
    THEN [p EXCEPT !.raised = TRUE, !.exc = "OverflowError", !.resp = NoResponse]
    ELSE [p EXCEPT !.resp = review]

\* lines 442-456: p is what parse_llm_response did
AfterParse(p, llm_response) ==
    IF p.raised THEN p ELSE PrintAndReturn(p, WithTokenUsage(p.resp, llm_response))

\* ReviewWith without the test of line 420: the error text is parsed like a reply
ReviewWithUnchecked(llm_response, language, file_path) ==
    AfterParse(parse_llm_response(llm_response.response, file_path, language), llm_response)

\* lines 414-456: llm_response is what the gateway returned
ReviewWith(llm_response, language, file_path) ==
    IF llm_response.error
    THEN [NotParsed EXCEPT !.resp = ReviewResponse(file_path, language, <<>>,
                                                    llm_response.response, 0),
                           !.path = "gateway_error", !.created = 1]
    ELSE AfterParse(parse_llm_response(llm_response.response, file_path, language),
                    llm_response)

\* ReviewService.review_code, lines 355-456
review_code(language, file_path, reply) ==
    ReviewWith(generate_review(reply), language, file_path)

-----------------------------------------------------------------------------
(* FixService, app/services/fix_service.py.  A fix is None or a text, held *)
(* as a field value: None or JStr(text).                                    *)

\* the keys of the dict generate_review returns (ollama_service.py lines 57-68)
Keys(llm_response) ==
    IF llm_response.error THEN {"response", "error"}
    ELSE {"response", "eval_count", "prompt_eval_count", "total_tokens"}

\* "```" in response, line 46: response is that dict and `in` tests its keys
FenceIn(response) == Fence \in {<<k>> : k \in Keys(response)}

\* what generate_fix or a block of it did: it returned ret or it raised exc;
\* calls is the number of gateway calls made
FixOutcome(raised, exc, ret, calls) ==
    [raised |-> raised, exc |-> exc, ret |-> ret, calls |-> calls]

\* lines 46-56: response is the dict of line 43, which has neither split
\* (line 47) nor strip (line 56)
FixFromReply(response, language) ==
    IF FenceIn(response)
    THEN FixOutcome(TRUE, "AttributeError: split", None, 1)
    ELSE FixOutcome(TRUE, "AttributeError: strip", None, 1)

\* lines 34-56: the body of the try
FixBody(language, code_snippet, finding, reply) ==
    FixFromReply(generate_review(reply), language)

\* FixExcept without the handler: what the body raised escapes
FixExceptMissing(b) == b

\* lines 57-59: except Exception returns None
FixExcept(b) == IF b.raised THEN FixOutcome(FALSE, "", None, b.calls) ELSE b

\* FixService.generate_fix, lines 28-59
generate_fix(language, code_snippet, finding, reply) ==
    IF code_snippet = <<>> THEN FixOutcome(FALSE, "", None, 0)
    ELSE FixExcept(FixBody(language, code_snippet, finding, reply))

\* finding.line_number as an int; None counts as 0 in the test of line 66
LineNumber(finding) ==
    IF finding.line_number.t = "num" THEN IntValue(finding.line_number.v[1]) ELSE 0

\* line 66: finding.line_number and 1 <= finding.line_number <= len(lines)
InRange(finding, lines) ==
    LineNumber(finding) # 0 /\ 1 <= LineNumber(finding) /\ LineNumber(finding) <= Len(lines)

\* SnippetAt that starts two lines before line_number
SnippetAtCentered(lines, line_number) ==
    Join(Slice(lines, Max({0, line_number - 3}), Min({Len(lines), line_number + 2})), NL)

\* lines 67-71: the lines around line_number, joined
SnippetAt(lines, line_number) ==
    Join(Slice(lines, Max({0, line_number - 2}), Min({Len(lines), line_number + 2})), NL)

\* the fix of lines 73-74 for a finding in range
FixFor(finding, lines, language, reply) ==
    generate_fix(language, SnippetAt(lines, LineNumber(finding)), finding, reply)

\* FixFinding that also stores the snippet it sent on the finding
FixFindingStoringSnippet(finding, lines, language, reply) ==
    IF InRange(finding, lines)
    THEN [finding EXCEPT !.fix_code = FixFor(finding, lines, language, reply).ret,
                         !.code_snippet = JStr(SnippetAt(lines, LineNumber(finding)))]
    ELSE finding

\* lines 65-74: the body of the loop for one finding; reply is what the
\* gateway does if it is called
FixFinding(finding, lines, language, reply) ==
    IF InRange(finding, lines)
    THEN [finding EXCEPT !.fix_code = FixFor(finding, lines, language, reply).ret]
    ELSE finding

\* the gateway calls made for one finding
FixCalls(finding, lines, language, reply) ==
    IF InRange(finding, lines) THEN FixFor(finding, lines, language, reply).calls ELSE 0

\* what lines 66-73 did for one finding: whether generate_fix was called,
\* the snippet handed to it, what it returned and its gateway calls
FixTrace(finding, lines, language, reply) ==
    IF InRange(finding, lines)
    THEN [called |-> TRUE, snippet |-> SnippetAt(lines, LineNumber(finding)),
          ret |-> FixFor(finding, lines, language, reply).ret,
          calls |-> FixFor(finding, lines, language, reply).calls]
    ELSE [called |-> FALSE, snippet |-> <<>>, ret |-> None, calls |-> 0]

RECURSIVE Sum(_)
Sum(ns) == IF ns = <<>> THEN 0 ELSE Head(ns) + Sum(Tail(ns))

\* generate_fixes_for_findings that keeps the fix_code a finding has when
\* generate_fix returned None
generate_fixes_for_findingsKeeping(code_content, language, findings, replies) ==
    [i \in 1..Len(findings) |->
        IF FixFinding(findings[i], Split(code_content, NL), language, replies[i]).fix_code = None
        THEN findings[i]
        ELSE FixFinding(findings[i], Split(code_content, NL), language, replies[i])]

\* FixService.generate_fixes_for_findings, lines 61-76: the findings it
\* returns; replies[i] is what the gateway does for findings[i]
generate_fixes_for_findings(code_content, language, findings, replies) ==
    [i \in 1..Len(findings) |->
        FixFinding(findings[i], Split(code_content, NL), language, replies[i])]

-----------------------------------------------------------------------------
(* The replies a model can give: JSON texts, wrapped, cut and garbled *)

\* records per findings array
MaxFindings == 2
\* prefixes of a document that are cut off (truncated replies)
MaxCut == 12

RECURSIVE JoinText(_, _)
JoinText(parts, sep) ==
    IF Len(parts) = 0 THEN <<>>
    ELSE IF Len(parts) = 1 THEN parts[1]
    ELSE parts[1] \o sep \o JoinText(Tail(parts), sep)

StrText(w) == <<DQ>> \o w \o <<DQ>>
Member(k, vtext) == StrText(<<k>>) \o <<":">> \o vtext
ObjText(members) == <<"{">> \o JoinText(members, <<",">>) \o <<"}">>
ArrText(elems) == <<"[">> \o JoinText(elems, <<",">>) \o <<"]">>

RecValid1 ==
    ObjText(<<Member("line_number", <<"3">>), Member("severity", StrText(<<"medium">>)),
              Member("title", StrText(<<"Shadowed", SP, "builtin">>))>>)
RecValid2 ==
    ObjText(<<Member("severity", StrText(<<"high">>)), Member("category", StrText(<<"style">>)),
              Member("fix_code", StrText(<<"items">>))>>)
RecBadSeverity ==
    ObjText(<<Member("severity", StrText(<<"bogus">>)), Member("title", StrText(<<"C">>))>>)
RecNoSeverity == ObjText(<<Member("title", StrText(<<"D">>))>>)
RecInfDimension ==
    ObjText(<<Member("severity", StrText(<<"low">>)),
              Member("dimensions", ObjText(<<Member("security", <<"1e999">>)>>))>>)
RecDimension ==
    ObjText(<<Member("severity", StrText(<<"info">>)),
              Member("dimensions", ObjText(<<Member("security", <<"7">>)>>))>>)
RecNotAMapping == <<"7">>
RecNullTitle ==
    ObjText(<<Member("severity", StrText(<<"low">>)), Member("title", <<"null">>)>>)
RecNullSeverity ==
    ObjText(<<Member("severity", <<"null">>), Member("title", StrText(<<"A">>))>>)
RecCasedSeverity ==
    ObjText(<<Member("severity", StrText(<<"Medium">>)), Member("title", StrText(<<"B">>))>>)
RecLineZero ==
    ObjText(<<Member("line_number", <<"0">>), Member("severity", StrText(<<"low">>))>>)
RecLineNegative ==
    ObjText(<<Member("line_number", <<"-1">>), Member("severity", StrText(<<"low">>))>>)

ValidRecords == {RecValid1, RecValid2, RecDimension}
RawRecords == ValidRecords \cup {RecBadSeverity, RecNoSeverity, RecInfDimension, RecNotAMapping}

\* arrays of at most MaxFindings raw records
RecordLists == UNION {[1..n -> RawRecords] : n \in 0..MaxFindings}

Doc(recs, summaryText) ==
    ObjText(<<Member("findings", ArrText(recs)), Member("summary", summaryText)>>)

OkSummary == StrText(<<"One", SP, "style", SP, "issue", SP, "found">>)

\* valid objects with a findings array and a summary
ArrayDocs == {Doc(recs, OkSummary) : recs \in RecordLists}

\* valid objects of other shapes
OddDocs ==
    {ObjText(<<>>),
     ObjText(<<Member("findings", ArrText(<<RecValid1>>))>>),
     ObjText(<<Member("summary", OkSummary)>>),
     ObjText(<<Member("findings", <<"null">>), Member("summary", OkSummary)>>),
     ObjText(<<Member("findings", <<"3">>), Member("summary", OkSummary)>>),
     ObjText(<<Member("findings", StrText(<<"none">>)), Member("summary", OkSummary)>>),
     ObjText(<<Member("findings", ObjText(<<Member("a", <<"1">>)>>)), Member("summary", OkSummary)>>),
     Doc(<<RecValid1>>, <<"null">>),
     Doc(<<RecValid1>>, StrText(<<>>)),
     Doc(<<RecValid1>>, <<"3">>),
     ObjText(<<Member("findings", ArrText(<<RecValid1>>)), Member("summary", OkSummary),
               Member("total_issues", <<"7">>)>>),
     ObjText(<<Member("findings", ArrText(<<>>)), Member("summary", OkSummary),
               Member("total_issues", <<"2">>)>>),
     Doc(<<RecValid2>>, StrText(<<"use", SP, BT, BT, BT, SP, "blocks">>)),
     Doc(<<RecValid2>>, StrText(<<BT, BT, BT, "x", BT, BT, BT>>)),
     Doc(<<RecValid2>>, StrText(<<"a", SP, "}", SP, "b">>)),
     Doc(<<RecValid2>>, StrText(<<"a", SP, "{", SP, "b">>)),
     Doc(<<RecValid2>>, StrText(<<"say", SP, BS, DQ, "hi", BS, DQ>>)),
     Doc(<<RecNullTitle, RecDimension>>, OkSummary),
     Doc(<<RecLineZero, RecValid1>>, OkSummary),
     Doc(<<RecLineNegative>>, OkSummary),
     Doc(<<RecNullSeverity, RecNoSeverity, RecCasedSeverity>>, OkSummary),
     Doc(<<StrText(<<"x">>), RecNoSeverity, ArrText(<<<<"1">>>>)>>, OkSummary),
     <<"{", NL, SP>> \o Member("summary", <<SP>> \o OkSummary) \o <<",", NL, SP>>
         \o Member("findings", <<SP>> \o ArrText(<<RecValid1>>)) \o <<NL, "}">>}

\* every valid JSON object text of the model
ValidDocs == ArrayDocs \cup OddDocs

\* near-JSON: unescaped quotes inside a value, trailing commas, stray text
BrokenDocs ==
    {<<"{", NL>> \o StrText(<<"summary">>) \o <<":", SP>>
         \o StrText(<<"use", SP, DQ, "x", DQ, SP, "here">>) \o <<",", NL>>
         \o Member("findings", ArrText(<<RecValid1>>)) \o <<NL, "}">>,
     <<"{">> \o StrText(<<"summary">>) \o <<":", SP>>
         \o StrText(<<"a", SP, DQ, "b", DQ, SP, "c">>) \o <<",", SP, "[", "}">>,
     <<"{">> \o StrText(<<"summary">>) \o <<":", SP>>
         \o StrText(<<"a", SP, DQ, "b", DQ>>) \o <<"}">>,
     <<"{">> \o StrText(<<"summary">>) \o <<":", SP>>
         \o StrText(<<"say", SP, DQ, "hi", DQ>>) \o <<",", SP>>
         \o StrText(<<"findings">>) \o <<":", SP, "[", "{">>
         \o StrText(<<"severity">>) \o <<":", SP>> \o StrText(<<"low">>) \o <<",", SP>>
         \o StrText(<<"title">>) \o <<":", SP>> \o StrText(<<"t">>) \o <<"}", "]", "}">>,
     <<"{">> \o StrText(<<"summary">>) \o <<":", SP>>
         \o StrText(<<"a", SP, BS, DQ, "b", BS, DQ, SP, DQ, "c", DQ, SP, "d">>) \o <<"}">>,
     <<"{">> \o Member("findings", ArrText(<<RecValid1>>)) \o <<",", "}">>,
     <<"{">> \o Member("findings", <<"[", "]", "]">>) \o <<"}">>,
     <<"{", "summary", ":", "1", "}">>,
     <<"{", "}", "}">>,
     <<"{", "{", "}">>}

\* the text with every straight double quote replaced by an opening or a
\* closing typographic one, alternately; open says how the first one is
\* replaced
Curl(text, open) ==
    [i \in 1..Len(text) |->
        IF text[i] # DQ THEN text[i]
        ELSE IF (Cardinality({k \in 1..(i - 1) : text[k] = DQ}) % 2 = 0) = open THEN LDQ
        ELSE RDQ]

Tagged(j) == FenceJson \o <<NL>> \o j \o <<NL>> \o Fence
Untagged(j) == Fence \o <<NL>> \o j \o <<NL>> \o Fence
Prose == <<"Here", SP, "is", SP, "my", SP, "review", ":", NL>>
InProse(j) == Prose \o j \o <<NL, "Hope", SP, "this", SP, "helps", "!">>

\* documents that are also cut, curled, fenced and embedded
SampleDocs ==
    {Doc(<<RecValid1>>, OkSummary), Doc(<<RecValid1, RecBadSeverity>>, OkSummary),
     ObjText(<<Member("summary", OkSummary)>>)}

Cuts(j) == {Slice(j, 0, Len(j) - k) : k \in 1..MaxCut}

\* what follows the object in a reply: a closing sentence, or text with
\* braces of its own
ProseTail == <<NL, "Hope", SP, "this", SP, "helps", "!">>
BraceTail == <<SP, "}", SP, "{", "x", "}">>
Trailers == {ProseTail, BraceTail}

NoBraceTexts ==
    {<<>>, <<SP, NL>>, <<"I", SP, "couldn't", SP, "analyze", SP, "this", SP, "code", ".">>,
     Fence, FenceJson, Tagged(<<"no", SP, "json">>), Untagged(<<"j", "s", "o", "n">>),
     <<"[", "1", "]">>, <<"}">>, Fence \o <<"x">> \o Fence \o <<"{", "}">>}

\* replies with more than one fence: a block of code before the block
\* tagged json, two fences with nothing between them before it, and a tagged
\* fence closed at once
SeveralFences ==
    {Fence \o <<"python", NL, "x", NL>> \o Fence \o <<NL>> \o Tagged(Doc(<<RecValid1>>, OkSummary)),
     Fence \o Tagged(Doc(<<RecValid1>>, OkSummary)),
     FenceJson \o Fence \o <<"{", "}">>}

Responses ==
    ValidDocs \cup BrokenDocs \cup NoBraceTexts \cup SeveralFences
    \cup {Tagged(j) : j \in SampleDocs \cup OddDocs}
    \cup {Untagged(j) : j \in SampleDocs \cup OddDocs}
    \cup {Fence \o <<"j", "s", "o", "n", SP>> \o j \o Fence : j \in SampleDocs}
    \cup {FenceJson \o j : j \in SampleDocs}
    \cup {InProse(j) : j \in SampleDocs \cup BrokenDocs}
    \cup {Prose \o j \o BraceTail : j \in SampleDocs \cup OddDocs}
    \cup {Tagged(j) : j \in BrokenDocs}
    \cup {InProse(Tagged(j)) : j \in SampleDocs}
    \cup {Curl(j, TRUE) : j \in SampleDocs}
    \cup UNION {Cuts(j) : j \in SampleDocs}
    \cup UNION {{Tagged(c) : c \in Cuts(j)} : j \in SampleDocs}

\* what client.generate can do
Replies ==
    {[raises |-> TRUE, exc |-> e, response |-> <<>>, eval_count |-> 0, prompt_eval_count |-> 0] :
        e \in {"connection refused", "model not found"}}
    \cup {[raises |-> FALSE, exc |-> "", response |-> r, eval_count |-> 5, prompt_eval_count |-> 9] :
        r \in Responses}

-----------------------------------------------------------------------------
(* The service as a state machine: one call at a time, its arguments and    *)
(* its outcome.  fix is the call of the fix service, cli the run of cli.py  *)
(* and srv the server process with its requests in flight.                  *)

VARIABLES phase, op, args, out, status, fix, cli, srv

vars == <<phase, op, args, out, status, fix, cli, srv>>

\* file_path and language of a request
Requests == {[file_path |-> "example.py", language |-> "python"],
             [file_path |-> "", language |-> "cobol"]}

TextReply(r) == [raises |-> FALSE, exc |-> "", response |-> r, eval_count |-> 0, prompt_eval_count |-> 0]

\* the arguments of a call of the fix service and what it gave back: ret of
\* generate_fix, findings of generate_fixes_for_findings
FixArgs(language, code_snippet, code_content, findings, replies) ==
    [language |-> language, code_snippet |-> code_snippet, code_content |-> code_content,
     findings |-> findings, replies |-> replies]
FixResult(raised, ret, calls, findings) ==
    [raised |-> raised, ret |-> ret, calls |-> calls, findings |-> findings]

\* findings per call of generate_fixes_for_findings
MaxFixFindings == 2

FixLanguages == {"python", "javascript"}
FixSnippets == {<<>>, <<"x", SP, "=", SP, "1">>}

\* reply texts of a fix request: a block tagged with the language, an
\* untagged block after a sentence, and bare code
FixTexts ==
    {Fence \o <<"python", NL, "x", SP, "=", SP, "2", NL>> \o Fence,
     <<"Here", SP, "you", SP, "go", ":", NL>> \o Fence \o <<NL, "x", SP, "=", SP, "2", NL>>
         \o Fence \o <<NL, "Done", ".">>,
     <<SP, "x", SP, "=", SP, "2", NL>>}

\* what client.generate can do on a fix request
FixReplies ==
    {[raises |-> TRUE, exc |-> "connection refused", response |-> <<>>, eval_count |-> 0,
      prompt_eval_count |-> 0]}
    \cup {[raises |-> FALSE, exc |-> "", response |-> r, eval_count |-> 5, prompt_eval_count |-> 9] :
        r \in FixTexts}

\* the Finding the parser builds from a raw record
FindingOf(rec) == FindingArgs(JsonLoads(rec).val)

\* findings on line 3, on line 1 with a fix_code of the model, without a
\* line and on a line beyond every file
FixFindings ==
    {FindingOf(RecValid1),
     [FindingOf(RecValid2) EXCEPT !.line_number = JNum("1")],
     FindingOf(RecValid2),
     [FindingOf(RecValid1) EXCEPT !.line_number = JNum("90")]}

FixFindingLists == UNION {[1..n -> FixFindings] : n \in 0..MaxFixFindings}

\* the file under review: empty, one line, three lines, six lines
CodeContents ==
    {<<>>, <<"x", SP, "=", SP, "1">>, <<"a", NL, "b", NL, "c">>,
     <<"a", NL, "b", NL, "c", NL, "d", NL, "e", NL, "f">>}

\* no call of the fix service is under way; trace is what a batch did for
\* each of its findings
FixIdle ==
    [op |-> "none", args |-> FixArgs("", <<>>, <<>>, <<>>, <<>>),
     res |-> FixResult(FALSE, None, 0, <<>>), trace |-> <<>>]

\* cli.py has not been started
CliIdle ==
    [pc |-> "idle", file |-> "", language_given |-> FALSE, language |-> "",
     available |-> FALSE, pulled |-> FALSE, started |-> FALSE, exit_code |-> -1,
     reply |-> TextReply(<<>>), out |-> NotParsed]

\* concurrent requests of the server
MaxClients == 2
Clients == 1..MaxClients

\* OllamaService(model_name="qwen2.5:0.5b"), main.py
StartupModel == "qwen2.5:0.5b"

\* no request of client c is in flight
CallIdle ==
    [pc |-> "idle", request |-> [file_path |-> "", language |-> ""], model |-> "",
     reply |-> TextReply(<<>>), result |-> NotParsed]

\* the server after init_services: the gateway's model_name and the calls
SrvIdle == [model_name |-> StartupModel, calls |-> [c \in Clients |-> CallIdle]]

Init ==
    /\ phase = "ready"
    /\ op = "none"
    /\ args = [reply |-> TextReply(<<>>), file_path |-> "", language |-> ""]
    /\ out = NotParsed
    /\ status = 0
    /\ fix = FixIdle
    /\ cli = CliIdle
    /\ srv = SrvIdle

\* a direct call of ReviewService.parse_llm_response
ParseLlmResponse ==
    /\ phase = "ready"
    /\ \E r \in Responses, q \in Requests :
        /\ args' = [reply |-> TextReply(r), file_path |-> q.file_path, language |-> q.language]
        /\ out' = parse_llm_response(r, q.file_path, q.language)
    /\ op' = "parse_llm_response"
    /\ phase' = "returned"
    /\ status' = 0
    /\ UNCHANGED <<fix, cli, srv>>

\* a direct call of ReviewService.review_code (cli.py, test_review.py)
ReviewCode ==
    /\ phase = "ready"
    /\ \E reply \in Replies, q \in Requests :
        /\ args' = [reply |-> reply, file_path |-> q.file_path, language |-> q.language]
        /\ out' = review_code(q.language, q.file_path, reply)
    /\ op' = "review_code"
    /\ phase' = "returned"
    /\ status' = 0
    /\ UNCHANGED <<fix, cli, srv>>

\* the status of a review route: 500 from the except of lines 54-55, 70-71
StatusOf(result) == IF result.raised THEN 500 ELSE 200

\* POST /api/review, review_routes.py lines 43-55
PostApiReview ==
    /\ phase = "ready"
    /\ \E reply \in Replies, q \in Requests :
        /\ args' = [reply |-> reply, file_path |-> q.file_path, language |-> q.language]
        /\ out' = review_code(q.language, q.file_path, reply)
    /\ status' = StatusOf(out')
    /\ op' = "POST /api/review"
    /\ phase' = "returned"
    /\ UNCHANGED <<fix, cli, srv>>

\* request.file_path or "snippet", line 66
OrSnippet(file_path) == IF file_path = "" THEN "snippet" ELSE file_path

\* POST /api/review/snippet, review_routes.py lines 58-71
PostApiReviewSnippet ==
    /\ phase = "ready"
    /\ \E reply \in Replies, q \in Requests :
        /\ args' = [reply |-> reply, file_path |-> q.file_path, language |-> q.language]
        /\ out' = review_code(q.language, OrSnippet(q.file_path), reply)
    /\ status' = StatusOf(out')
    /\ op' = "POST /api/review/snippet"
    /\ phase' = "returned"
    /\ UNCHANGED <<fix, cli, srv>>

\* the caller has the outcome; the service holds nothing of the call
Return ==
    /\ phase = "returned"
    /\ phase' = "ready"
    /\ op' = "none"
    /\ args' = [reply |-> TextReply(<<>>), file_path |-> "", language |-> ""]
    /\ out' = NotParsed
    /\ status' = 0
    /\ UNCHANGED <<fix, cli, srv>>

Next ==
    \/ ParseLlmResponse
    \/ ReviewCode
    \/ PostApiReview
    \/ PostApiReviewSnippet
    \/ Return

Spec == Init /\ [][Next]_vars

-----------------------------------------------------------------------------
(* The fix service: calls of generate_fix and generate_fixes_for_findings *)

\* what the caller of generate_fix gets from the outcome r
FixResultOf(r) == FixResult(r.raised, r.ret, r.calls, <<>>)

\* a call of FixService.generate_fix (review_routes.py line 88)
GenerateFix ==
    /\ fix.op = "none"
    /\ \E language \in FixLanguages, code_snippet \in FixSnippets,
          finding \in FixFindings, reply \in FixReplies :
        fix' = [op |-> "generate_fix",
                args |-> FixArgs(language, code_snippet, <<>>, <<finding>>, <<reply>>),
                res |-> FixResultOf(generate_fix(language, code_snippet, finding, reply)),
                trace |-> <<>>]
    /\ UNCHANGED <<phase, op, args, out, status, cli, srv>>

\* the gateway calls of one generate_fixes_for_findings
AllFixCalls(code_content, language, findings, replies) ==
    Sum([i \in 1..Len(findings) |->
            FixCalls(findings[i], Split(code_content, NL), language, replies[i])])

\* what the loop of lines 65-74 did, finding by finding
AllFixTraces(code_content, language, findings, replies) ==
    [i \in 1..Len(findings) |->
        FixTrace(findings[i], Split(code_content, NL), language, replies[i])]

\* a call of FixService.generate_fixes_for_findings
GenerateFixesForFindings ==
    /\ fix.op = "none"
    /\ \E language \in FixLanguages, code_content \in CodeContents, findings \in FixFindingLists :
        \E replies \in [1..Len(findings) -> FixReplies] :
            fix' = [op |-> "generate_fixes_for_findings",
                    args |-> FixArgs(language, <<>>, code_content, findings, replies),
                    res |-> FixResult(FALSE, None,
                                      AllFixCalls(code_content, language, findings, replies),
                                      generate_fixes_for_findings(code_content, language,
                                                                  findings, replies)),
                    trace |-> AllFixTraces(code_content, language, findings, replies)]
    /\ UNCHANGED <<phase, op, args, out, status, cli, srv>>

\* the caller has the result
FixReturn ==
    /\ fix.op # "none"
    /\ fix' = FixIdle
    /\ UNCHANGED <<phase, op, args, out, status, cli, srv>>

NextFix ==
    \/ GenerateFix
    \/ GenerateFixesForFindings
    \/ FixReturn

SpecFix == Init /\ [][NextFix]_vars

-----------------------------------------------------------------------------
(* cli.py: one run of main, a step per stage *)

\* what --file names: a readable file, no file, a directory, or the option
\* is not given (Path(None) raises inside the try of line 28)
CliFiles == {"ok", "missing", "unreadable", "not given"}

\* review_code as line 69 calls it.  Without --language args.language is
\* None, and every ReviewResponse(language=None) fails validation
\* (review.py line 43): those of review_service.py lines 421 and 337, and
\* that of the handler of lines 344-353, so the error leaves review_code.
CliReviewCode(language_given, language, file_path, reply) ==
    IF language_given THEN review_code(language, file_path, reply)
    ELSE [NotParsed EXCEPT !.raised = TRUE, !.exc = "ValidationError"]

\* lines 16-25: the arguments are parsed
CliStart ==
    /\ cli.pc = "idle"
    /\ \E f \in CliFiles, g \in BOOLEAN :
        cli' = [CliIdle EXCEPT !.pc = "read_file", !.file = f, !.language_given = g,
                               !.language = IF g THEN "python" ELSE ""]
    /\ UNCHANGED <<phase, op, args, out, status, fix, srv>>

\* lines 28-37: the file is read, or the run ends with sys.exit(1)
CliReadFile ==
    /\ cli.pc = "read_file"
    /\ cli' = IF cli.file = "ok" THEN [cli EXCEPT !.pc = "check_model"]
              ELSE [cli EXCEPT !.pc = "exited", !.exit_code = 1]
    /\ UNCHANGED <<phase, op, args, out, status, fix, srv>>

\* lines 41-45: check_model_available answers
CliCheckModel ==
    /\ cli.pc = "check_model"
    /\ \E available \in BOOLEAN :
        cli' = [cli EXCEPT !.available = available,
                           !.pc = IF available THEN "review" ELSE "pull"]
    /\ UNCHANGED <<phase, op, args, out, status, fix, srv>>

\* lines 46-51: pull_model answers; sys.exit(1) when it failed
CliPullModel ==
    /\ cli.pc = "pull"
    /\ \E pulled \in BOOLEAN :
        cli' = IF pulled THEN [cli EXCEPT !.pulled = TRUE, !.pc = "review"]
                  ELSE [cli EXCEPT !.pc = "exited", !.exit_code = 1]
    /\ UNCHANGED <<phase, op, args, out, status, fix, srv>>

\* lines 66-74 and 124: result is what review_code did; an exception that
\* leaves main ends the process with status 1
CliAfterReview(c, reply, result) ==
    [c EXCEPT !.started = TRUE, !.reply = reply, !.out = result,
              !.pc = IF result.raised THEN "exited" ELSE "report",
              !.exit_code = IF result.raised THEN 1 ELSE @]

\* lines 66-74: the review
CliReview ==
    /\ cli.pc = "review"
    /\ \E reply \in Replies :
        cli' = CliAfterReview(cli, reply,
                              CliReviewCode(cli.language_given, cli.language, "app.py", reply))
    /\ UNCHANGED <<phase, op, args, out, status, fix, srv>>

\* lines 76-120: the report is printed and main returns
CliReport ==
    /\ cli.pc = "report"
    /\ cli' = [cli EXCEPT !.pc = "exited", !.exit_code = 0]
    /\ UNCHANGED <<phase, op, args, out, status, fix, srv>>

\* the process is gone
CliExit ==
    /\ cli.pc = "exited"
    /\ cli' = CliIdle
    /\ UNCHANGED <<phase, op, args, out, status, fix, srv>>

NextCli ==
    \/ CliStart
    \/ CliReadFile
    \/ CliCheckModel
    \/ CliPullModel
    \/ CliReview
    \/ CliReport
    \/ CliExit

SpecCli == Init /\ [][NextCli]_vars

-----------------------------------------------------------------------------
(* The server: requests in flight on the service handles of                 *)
(* review_routes.py lines 10-21.  A review is suspended at its gateway call *)
(* and other requests run meanwhile.                                        *)

ModelNames == {StartupModel, "mistral"}

\* what the gateway answers to a review of the server
SrvReplies ==
    {[raises |-> TRUE, exc |-> "model not found", response |-> <<>>, eval_count |-> 0,
      prompt_eval_count |-> 0],
     [raises |-> FALSE, exc |-> "", response |-> Doc(<<RecValid1>>, OkSummary), eval_count |-> 5,
      prompt_eval_count |-> 9],
     [raises |-> FALSE, exc |-> "", response |-> Prose, eval_count |-> 2, prompt_eval_count |-> 9]}

\* POST /api/review up to the gateway call (review_service.py lines 355-409):
\* generate_review reads self.model_name (ollama_service.py line 47)
SrvBegin(c) ==
    /\ srv.calls[c].pc = "idle"
    /\ \E q \in Requests :
        srv' = [srv EXCEPT !.calls[c] = [CallIdle EXCEPT !.pc = "waiting", !.request = q,
                                                          !.model = srv.model_name]]
    /\ UNCHANGED <<phase, op, args, out, status, fix, cli>>

\* client.generate of call c answers
SrvGatewayReply(c) ==
    /\ srv.calls[c].pc = "waiting"
    /\ \E reply \in SrvReplies :
        srv' = [srv EXCEPT !.calls[c].reply = reply, !.calls[c].pc = "replied"]
    /\ UNCHANGED <<phase, op, args, out, status, fix, cli>>

\* OwnReply read from a field of the shared service: the reply that the
\* highest-numbered call holds
OwnReplyShared(calls, c) ==
    calls[Max({d \in Clients : calls[d].pc \in {"replied", "done"}})].reply

\* llm_response of review_service.py line 409, a local of the call
OwnReply(calls, c) == calls[c].reply

\* review_service.py lines 411-456: the rest of the review of call c
SrvFinish(c) ==
    /\ srv.calls[c].pc = "replied"
    /\ srv' = [srv EXCEPT !.calls[c].pc = "done",
                          !.calls[c].result =
                              review_code(srv.calls[c].request.language,
                                          srv.calls[c].request.file_path,
                                          OwnReply(srv.calls, c))]
    /\ UNCHANGED <<phase, op, args, out, status, fix, cli>>

\* the response of call c is sent
SrvRespond(c) ==
    /\ srv.calls[c].pc = "done"
    /\ srv' = [srv EXCEPT !.calls[c] = CallIdle]
    /\ UNCHANGED <<phase, op, args, out, status, fix, cli>>

\* POST /api/llm/pull-model, review_routes.py lines 150-162: model_name of the
\* shared gateway is reassigned
SrvPullModel ==
    /\ \E model_name \in ModelNames : srv' = [srv EXCEPT !.model_name = model_name]
    /\ UNCHANGED <<phase, op, args, out, status, fix, cli>>

NextSrv ==
    \/ \E c \in Clients : SrvBegin(c)
    \/ \E c \in Clients : SrvGatewayReply(c)
    \/ \E c \in Clients : SrvFinish(c)
    \/ \E c \in Clients : SrvRespond(c)
    \/ SrvPullModel

SpecSrv == Init /\ [][NextSrv]_vars

-----------------------------------------------------------------------------
(* Properties *)

ReviewOps == {"review_code", "POST /api/review", "POST /api/review/snippet"}
IsParseCall == op = "parse_llm_response"
IsReviewCall == op \in ReviewOps

\* the text handed to parse_llm_response, what fence stripping leaves of it,
\* and the index of its first brace
InputText == args.reply.response
Stripped == StripFences(InputText)
StartIdx == Find(Stripped, <<"{">>)

\* r is a ReviewResponse for the request (file_path, language)
IsReviewResponse(r, file_path, language) ==
    /\ r.file_path = file_path
    /\ r.language = language
    /\ r.total_issues \in Nat
    /\ \A i \in 1..Len(r.findings) : FindingValid(r.findings[i])

\* C1: parse_llm_response returns a ReviewResponse for every input text,
\* file path and language; no exception escapes to its caller.
C1_ParseNeverRaises ==
    IsParseCall => /\ ~out.raised
                   /\ IsReviewResponse(out.resp, args.file_path, args.language)

\* the body raised (findings was null or a number, summary was null) and the
\* handler turned it into a response
C1_Witness ==
    /\ IsParseCall
    /\ out.path = "except"
    /\ out.resp.summary = ExceptSummary("TypeError")

\* C2: review_code returns a ReviewResponse and never raises, for every
\* gateway outcome, so the review routes never answer 500.
C2_ReviewNeverRaises ==
    IsReviewCall => ~out.raised /\ status # 500

\* C3: every ReviewResponse produced by parse_llm_response or review_code
\* has total_issues equal to the number of its findings, whatever
\* total_issues the model's JSON carried.
C3_TotalIssuesIsLength ==
    (op # "none" /\ ~out.raised) => out.resp.total_issues = Len(out.resp.findings)

\* the model's JSON said total_issues 7 and one finding was returned
C3_Witness ==
    /\ op # "none"
    /\ ~out.raised
    /\ out.first.ok
    /\ DictGet(out.first.val, "total_issues", JNull) = JNum("7")
    /\ Len(out.resp.findings) = 1
    /\ out.resp.total_issues = 1

\* the object that was parsed, and its findings array
ParsedData == IF out.first.ok THEN out.first.val ELSE out.second.val
RawFindings == DictGet(ParsedData, "findings", JArr(<<>>))

\* a record whose only fault is a severity string outside the enum
HasBadSeverity(rec) ==
    /\ rec.t = "obj"
    /\ DictGet(rec, "severity", JNull).t = "str"
    /\ ~IsSeverity(DictGet(rec, "severity", JNull))
    /\ FindingValid([FindingArgs(rec) EXCEPT !.severity = JStr(<<"info">>)])

IsValidRecord(rec) == rec.t = "obj" /\ FindingValid(FindingArgs(rec))

\* record k is the one bad record of the parsed findings array
OneBadRecord(k) ==
    /\ IsParseCall
    /\ out.path \in {"parsed", "repaired"}
    /\ RawFindings.t = "arr"
    /\ k \in 1..Len(RawFindings.v)
    /\ HasBadSeverity(RawFindings.v[k])
    /\ \A i \in 1..Len(RawFindings.v) : i # k => IsValidRecord(RawFindings.v[i])

\* the records other than k, in their order
AllBut(k) ==
    [i \in 1..(Len(RawFindings.v) - 1) |->
        FindingArgs(RawFindings.v[IF i < k THEN i ELSE i + 1])]

C5_GatewayErrorShortCircuits ==
    (IsReviewCall /\ args.reply.raises) =>
        /\ ~out.raised
        /\ out.resp.findings = <<>>
        /\ out.resp.total_issues = 0
        /\ out.resp.summary = <<"Error generating review: ", args.reply.exc>>
        /\ out.path = "gateway_error"
        /\ out.first = NotAttempted

C5_Witness ==
    /\ op = "review_code"
    /\ args.reply.raises
    /\ out.resp.summary = <<"Error generating review: ", "connection refused">>

\* C6: when the text left after fence stripping has no brace,
\* parse_llm_response returns empty findings, total_issues 0 and the
\* no-JSON summary, and json.loads is not called.
C6_NoBraceNoParse ==
    (IsParseCall /\ StartIdx = -1) =>
        /\ out.resp.findings = <<>>
        /\ out.resp.total_issues = 0
        /\ out.resp.summary = NoJsonSummary
        /\ out.first = NotAttempted
        /\ out.second = NotAttempted

\* prose without a brace
C6_Witness ==
    /\ IsParseCall
    /\ InputText = <<"I", SP, "couldn't", SP, "analyze", SP, "this", SP, "code", ".">>
    /\ out.resp.summary = NoJsonSummary

\* braces opened minus braces closed in s[start..i]
Depth(s, start, i) ==
    Cardinality({k \in start..i : At(s, k) = "{"}) - Cardinality({k \in start..i : At(s, k) = "}"})

\* the brace count from start never returns to zero
NeverCloses(s, start) == \A i \in start..(Len(s) - 1) : Depth(s, start, i) > 0

\* C7: when the brace count from the first brace never returns to zero,
\* the candidate handed to the strict parse is the text from that brace to
\* the end of the input.
C7_TruncatedCandidateToEnd ==
    (IsParseCall /\ StartIdx # -1 /\ NeverCloses(Stripped, StartIdx)) =>
        out.json_str = SliceFrom(Stripped, StartIdx)

\* the candidate, its repair, and the two parse attempts, from the input
Candidate == ExtractCandidate(Stripped, StartIdx)
BothParsesFail ==
    /\ StartIdx # -1
    /\ ~JsonLoads(Candidate).ok
    /\ ~JsonLoads(Repair(Candidate)).ok

\* C8: when a first brace exists and both the strict parse and the parse of
\* the repaired candidate fail, the result has empty findings, total_issues
\* 0 and a summary embedding the error message of the second attempt; it is
\* not the no-JSON outcome.
C8_SecondErrorReported ==
    (IsParseCall /\ BothParsesFail) =>
        /\ out.resp.findings = <<>>
        /\ out.resp.total_issues = 0
        /\ out.resp.summary =
              <<"JSON parsing failed: ">>
              \o ErrStr(JsonLoads(Repair(Candidate)), Repair(Candidate))
              \o <<". Response may be truncated.">>
        /\ out.resp.summary # NoJsonSummary

\* the repair changed the candidate and the second attempt failed elsewhere
C8_Witness ==
    /\ IsParseCall
    /\ BothParsesFail
    /\ Repair(Candidate) # Candidate
    /\ ErrStr(out.second, out.fixed) # ErrStr(out.first, out.json_str)
    /\ out.path = "parse_failed"

\* findings, summary and total_issues of two responses agree
SameReview(r1, r2) ==
    /\ r1.findings = r2.findings
    /\ r1.summary = r2.summary
    /\ r1.total_issues = r2.total_issues

\* C9: for every valid JSON object text, the text in a fence tagged json,
\* in an untagged fence and unwrapped give the same findings, summary and
\* total_issues.
C9_FenceIdempotence ==
    (IsParseCall /\ InputText \in ValidDocs) =>
        /\ SameReview(parse_llm_response(Tagged(InputText), args.file_path, args.language).resp,
                      out.resp)
        /\ SameReview(parse_llm_response(Untagged(InputText), args.file_path, args.language).resp,
                      out.resp)

\* C10: an object written with typographic double quotes throughout fails
\* the strict parse, is repaired, and parses to the findings and summary of
\* the same object written with straight quotes.
C10_SmartQuotesRepaired ==
    \A j \in SampleDocs :
        (IsParseCall /\ InputText = Curl(j, TRUE)) =>
            /\ ~out.first.ok
            /\ out.path = "repaired"
            /\ SameReview(out.resp, parse_llm_response(j, args.file_path, args.language).resp)

\* C11: every ReviewResponse returned by parse_llm_response or review_code
\* has a non-empty summary, also when the model's JSON carries a summary
\* that is empty, null or missing.
C11_SummaryNonEmpty ==
    (op # "none" /\ ~out.raised) => out.resp.summary # <<>>

\* the arguments of a generate_fix call
IsFixCall == fix.op = "generate_fix"
FixReply == fix.args.replies[1]

\* C12: generate_fix returns None when the code snippet is empty, without
\* calling the gateway, and when the gateway call fails; it never raises to
\* its caller.
C12_FixNeverRaises ==
    IsFixCall =>
        /\ ~fix.res.raised
        /\ (fix.args.code_snippet = <<>> => fix.res.ret = None /\ fix.res.calls = 0)
        /\ (FixReply.raises => fix.res.ret = None)

\* the gateway was called for a snippet and failed
C12_Witness ==
    /\ IsFixCall
    /\ fix.args.code_snippet # <<>>
    /\ FixReply.raises
    /\ fix.res.calls = 1
    /\ fix.res.ret = None
    /\ ~fix.res.raised

\* lines 46-56 read on the reply text: the text between the first fence and
\* the next one, trimmed, less a leading language tag; the trimmed text
\* when there is no fence
FixFromText(text, language) ==
    IF Contains(text, Fence)
    THEN LET start == Find(text, Fence) + 3
             end == FindFrom(text, Fence, start)
             code == Strip(IF end = -1 THEN SliceFrom(text, start) ELSE Slice(text, start, end))
         IN  IF StartsWith(code, <<language>>) THEN Strip(SliceFrom(code, 1)) ELSE code
    ELSE Strip(text)

\* C13: when the snippet is non-empty and the gateway call succeeds,
\* generate_fix returns the text between the first fence of the reply and
\* the next one, less a leading tag equal to the language, or the trimmed
\* reply when it has no fence.
C13_FixExtractsFencedText ==
    (IsFixCall /\ fix.args.code_snippet # <<>> /\ ~FixReply.raises) =>
        fix.res.ret = JStr(FixFromText(FixReply.response, fix.args.language))

\* a finding apart from its fix_code
SansFix(finding) == [finding EXCEPT !.fix_code = None]

\* C14: generate_fixes_for_findings changes no field of a finding other
\* than fix_code and returns the findings it was given, in their order and
\* number.
C14_OnlyFixCodeChanges ==
    fix.op = "generate_fixes_for_findings" =>
        /\ Len(fix.res.findings) = Len(fix.args.findings)
        /\ \A i \in 1..Len(fix.args.findings) :
               SansFix(fix.res.findings[i]) = SansFix(fix.args.findings[i])

\* two findings: the fix_code of the first was replaced, the second is on
\* no line of the file and was left as it was
C14_Witness ==
    /\ fix.op = "generate_fixes_for_findings"
    /\ Len(fix.args.findings) = 2
    /\ fix.res.findings[1].fix_code # fix.args.findings[1].fix_code
    /\ fix.res.findings[2] = fix.args.findings[2]
    /\ fix.res.calls = 1

\* the file_path a review operation hands to review_code
CalledPath ==
    IF op = "POST /api/review/snippet" THEN OrSnippet(args.file_path) ELSE args.file_path

\* what parse_llm_response produces for the reply text of the call
ParserResponse == parse_llm_response(InputText, CalledPath, args.language).resp

\* the token_usage built from the counters of the gateway's reply
GatewayCounters ==
    [set |-> TRUE, prompt_tokens |-> args.reply.prompt_eval_count,
     completion_tokens |-> args.reply.eval_count,
     total_tokens |-> args.reply.eval_count + args.reply.prompt_eval_count]

\* C15: within one review_code call exactly one ReviewResponse is created;
\* after parse_llm_response returned it only token_usage is assigned, from
\* the gateway counters, and file_path, language, findings, summary and
\* total_issues of the returned object are those the parser produced.
C15_OnlyTokenUsageAssigned ==
    IsReviewCall =>
        /\ out.created = 1
        /\ (~args.reply.raises /\ ~out.raised) =>
               /\ [out.resp EXCEPT !.token_usage = NoTokenUsage] = ParserResponse
               /\ out.resp.token_usage = GatewayCounters

\* a parsed review with findings came back with the counters of the gateway
C15_Witness ==
    /\ IsReviewCall
    /\ out.path = "parsed"
    /\ ~out.raised
    /\ Len(out.resp.findings) = 2
    /\ out.resp.token_usage.set
    /\ out.resp.token_usage.total_tokens = 14
    /\ ParserResponse.token_usage = NoTokenUsage

\* the run ended before the review: no readable file, or no model
CliNoFile == cli.file # "ok"
CliNoModel == cli.file = "ok" /\ ~cli.available /\ ~cli.pulled

\* C16: the CLI exits with code 1 exactly when the file is missing or
\* unreadable or the model is unavailable and the pull fails; every other
\* run ends with code 0, also when the gateway errors or parsing degrades;
\* the review is started only after the model check or the pull succeeded.
C16_CliExitCodes ==
    /\ cli.pc = "exited" =>
           /\ cli.exit_code \in {0, 1}
           /\ cli.exit_code = 1 <=> (CliNoFile \/ CliNoModel)
    /\ cli.started => (cli.available \/ cli.pulled)

\* C17: under every interleaving of review requests with each other and
\* with pull-model requests, the result of a review is the one review_code
\* gives for its own request and its own gateway reply.
C17_ResultFromOwnCall ==
    \A c \in Clients :
        srv.calls[c].pc = "done" =>
            srv.calls[c].result = review_code(srv.calls[c].request.language,
                                              srv.calls[c].request.file_path,
                                              srv.calls[c].reply)

\* two requests in flight that differ in request, reply and model asked (a
\* pull-model ran between them); the first is done
C17_Witness ==
    /\ srv.calls[1].pc = "done"
    /\ srv.calls[2].pc = "replied"
    /\ srv.calls[1].request # srv.calls[2].request
    /\ srv.calls[1].reply # srv.calls[2].reply
    /\ srv.calls[1].model # srv.calls[2].model
    /\ Len(srv.calls[1].result.resp.findings) = 1

\* the raw record has no member named key
Absent(rec, key) == \A i \in 1..Len(rec.v) : rec.v[i].k # <<key>>

TextKeys == {"category", "title", "description", "suggestion"}

\* what is in rec besides the text fields is valid
RestValid(rec) ==
    FindingValid([FindingArgs(rec) EXCEPT !.category = JStr(<<>>), !.title = JStr(<<>>),
                                          !.description = JStr(<<>>), !.suggestion = JStr(<<>>)])

\* a record with a valid severity that lacks some of the text fields and is
\* otherwise valid
LacksText(rec) ==
    /\ rec.t = "obj"
    /\ IsSeverity(DictGet(rec, "severity", JNull))
    /\ \E key \in TextKeys : Absent(rec, key)
    /\ \A key \in TextKeys : Absent(rec, key) \/ IsStr(DictGet(rec, key, JNull))
    /\ RestValid(rec)

\* the value of a text field of the finding kept for rec
TextOf(rec, key, default) ==
    IF Absent(rec, key) THEN JStr(default) ELSE DictGet(rec, key, JNull)

\* the finding of rec with category "other" and empty texts where rec has none
WithDefaults(rec) ==
    [FindingArgs(rec) EXCEPT !.category = TextOf(rec, "category", <<"other">>),
                             !.title = TextOf(rec, "title", <<>>),
                             !.description = TextOf(rec, "description", <<>>),
                             !.suggestion = TextOf(rec, "suggestion", <<>>)]

\* C18: a raw record with a valid severity that lacks category, title,
\* description or suggestion is kept, with category "other" and the missing
\* texts empty; no finding of any result has a null category, title,
\* description or suggestion.
C18_MissingTextDefaulted ==
    /\ (IsParseCall /\ out.path \in {"parsed", "repaired"} /\ RawFindings.t = "arr") =>
           \A k \in 1..Len(RawFindings.v) :
               LacksText(RawFindings.v[k]) =>
                   \E i \in 1..Len(out.resp.findings) :
                       out.resp.findings[i] = WithDefaults(RawFindings.v[k])
    /\ (op # "none" /\ ~out.raised) =>
           \A i \in 1..Len(out.resp.findings) :
               /\ IsStr(out.resp.findings[i].category)
               /\ IsStr(out.resp.findings[i].title)
               /\ IsStr(out.resp.findings[i].description)
               /\ IsStr(out.resp.findings[i].suggestion)

\* a record with a null title was dropped and the next one, which has a
\* severity and no text field, was kept with the defaults
C18_Witness ==
    /\ IsParseCall
    /\ out.path = "parsed"
    /\ RawFindings.t = "arr"
    /\ Len(RawFindings.v) = 2
    /\ RawFindings.v[1].t = "obj"
    /\ DictGet(RawFindings.v[1], "title", JStr(<<>>)) = JNull
    /\ LacksText(RawFindings.v[2])
    /\ \A key \in TextKeys : Absent(RawFindings.v[2], key)
    /\ Len(out.resp.findings) = 1
    /\ out.resp.findings[1].category = JStr(<<"other">>)
    /\ out.resp.findings[1].title = JStr(<<>>)
    /\ out.resp.findings[1].description = JStr(<<>>)
    /\ out.resp.findings[1].suggestion = JStr(<<>>)

\* what lines 313-343 and the handler give for the parsed object data
ResponseFrom(data) ==
    OuterExcept(Built(BuildResponse(data, args.file_path, args.language), "parsed",
                      <<>>, <<>>, NotAttempted, <<>>, NotAttempted),
                args.file_path, args.language).resp

\* C19: the stages run in the order fence stripping, location of the first
\* brace, brace extraction, strict parse, repair, re-parse; the repair runs
\* only after the strict parse of the candidate failed, a candidate that
\* parses strictly is used unmodified, and there are at most two parse
\* attempts.
C19_StagesInOrder ==
    IsParseCall =>
        /\ out.stripped = Stripped
        /\ StartIdx = -1 => out.first = NotAttempted /\ out.second = NotAttempted
        /\ StartIdx # -1 =>
               /\ out.json_str = Candidate
               /\ out.first = JsonLoads(Candidate)
        /\ out.first.ok =>
               /\ out.fixed = <<>>
               /\ out.second = NotAttempted
               /\ out.resp = ResponseFrom(JsonLoads(Candidate).val)
        /\ out.second # NotAttempted =>
               /\ ~out.first.ok
               /\ out.first # NotAttempted
               /\ out.fixed = Repair(Candidate)
               /\ out.second = JsonLoads(Repair(Candidate))

\* the strict parse failed, the repair changed the candidate and the second
\* parse succeeded
C19_Witness ==
    /\ IsParseCall
    /\ out.path = "repaired"
    /\ ~out.first.ok
    /\ out.second.ok
    /\ out.fixed # out.json_str
    /\ out.resp.summary = <<"use", SP, DQ, "x", DQ, SP, "here">>

RECURSIVE EscapeUnescaped(_)
\* s with a backslash put before every double quote that has none, one
\* backslash or quote at a time
EscapeUnescaped(s) ==
    LET marks == {i \in 1..Len(s) : s[i] \in {BS, DQ}}
        i == Min(marks)
    IN  IF marks = {} THEN s
        ELSE IF s[i] = BS /\ i < Len(s)
        THEN SubSeq(s, 1, i + 1) \o EscapeUnescaped(SubSeq(s, i + 2, Len(s)))
        ELSE IF s[i] = DQ
        THEN SubSeq(s, 1, i - 1) \o <<BS, DQ>> \o EscapeUnescaped(SubSeq(s, i + 1, Len(s)))
        ELSE s

\* the index of the nearest closing marker of value_part, -1 without one
NearestMarker(value_part) ==
    LET found == {Find(value_part, <<DQ, ",">>), Find(value_part, <<DQ, "}">>)} \ {-1}
    IN  IF found = {} THEN -1 ELSE Min(found)

\* one line repaired as stated: the span ends at the nearest marker and
\* only its unescaped quotes are escaped
NearestFixLine(line) ==
    LET parts == SplitOnce(line, <<DQ, ":", SP, DQ>>)
    IN  IF Len(parts) = 2 /\ NearestMarker(parts[2]) > 0
        THEN parts[1] \o <<DQ, ":", SP, DQ>>
             \o EscapeUnescaped(Slice(parts[2], 0, NearestMarker(parts[2])))
             \o SliceFrom(parts[2], NearestMarker(parts[2]))
        ELSE line

NearestRepair(json_str) ==
    LET lines == Split(json_str, NL)
    IN  Join([i \in 1..Len(lines) |-> NearestFixLine(lines[i])], NL)

\* C20: in the repair pass the value span of a "key": "value" line ends at
\* the nearest closing marker on the line and only the unescaped double
\* quotes inside it are escaped; text after the marker and quotes that are
\* already escaped stay as they are.
C20_RepairSpanNearestMarker ==
    (IsParseCall /\ StartIdx # -1 /\ ~out.first.ok) => out.fixed = NearestRepair(out.json_str)

\* the index of the first fence of r
FirstFence(r) == Find(r, Fence)

\* r has a fence and a later one that closes it
HasClosedFence(r) == FirstFence(r) # -1 /\ FindFrom(r, Fence, FirstFence(r) + 3) # -1

\* text without a leading json tag
SansJsonTag(text) == IF StartsWith(text, JsonTag) THEN Strip(SliceFrom(text, 4)) ELSE text

\* the trimmed content between the first fence of r and the next one, less a
\* json tag
FirstFenceContent(r) ==
    SansJsonTag(Strip(Slice(r, FirstFence(r) + 3, FindFrom(r, Fence, FirstFence(r) + 3))))

\* C21: when the response has a fence with a later closing fence, the text
\* passed on to object location is the content between the first opening
\* fence of the response, tagged or not, and the next fence after it, with a
\* json tag removed.
C21_FirstFenceContent ==
    (IsParseCall /\ HasClosedFence(InputText)) => out.stripped = FirstFenceContent(InputText)

RECURSIVE StringsBraceFree(_)
\* no string value inside the JSON value x contains a brace
StringsBraceFree(x) ==
    CASE x.t = "str" -> \A i \in 1..Len(x.v) : x.v[i] \notin {"{", "}"}
      [] x.t = "arr" -> \A i \in 1..Len(x.v) : StringsBraceFree(x.v[i])
      [] x.t = "obj" -> \A i \in 1..Len(x.v) : StringsBraceFree(x.v[i].val)
      [] OTHER -> TRUE

\* the first index from start on at which the brace count is back at zero
FirstZero(s, start) == Min({i \in start..(Len(s) - 1) : Depth(s, start, i) = 0})

\* the response is brace-free prose, the valid object j, then the text t
IsWrapped(j, t) ==
    /\ InputText = Prose \o j \o t
    /\ ~Contains(InputText, Fence)
    /\ StringsBraceFree(JsonLoads(j).val)

IsPositiveLine(x) == x = None \/ (x.t = "num" /\ x.v[1] \in IntTokens /\ IntValue(x.v[1]) >= 1)

\* C23: every Finding of a returned ReviewResponse has a line_number that
\* is absent or a positive integer; a raw record with line_number 0 or a
\* negative one never appears in the result with that value.
C23_LineNumberPositive ==
    (op # "none" /\ ~out.raised) =>
        \A i \in 1..Len(out.resp.findings) : IsPositiveLine(out.resp.findings[i].line_number)

\* the number of lines of the code: one more than its line breaks
NumLines(code_content) == Cardinality({i \in 1..Len(code_content) : code_content[i] = NL}) + 1

\* the finding has a line_number on a line of a file of L lines
OnALine(finding, L) ==
    /\ finding.line_number.t = "num"
    /\ finding.line_number.v[1] \in IntTokens
    /\ IntValue(finding.line_number.v[1]) \in 1..L

IsFixBatch == fix.op = "generate_fixes_for_findings"

\* C24: after generate_fixes_for_findings every finding whose line_number
\* is within 1..number of lines has the fix_code generate_fix returned for
\* it, None included, so a fix_code the model supplied is not preserved;
\* a finding without line_number or with one out of range keeps its
\* fix_code and causes no gateway call.
C24_FixCodeOverwritten ==
    IsFixBatch =>
        \A i \in 1..Len(fix.args.findings) :
            IF OnALine(fix.args.findings[i], NumLines(fix.args.code_content))
            THEN /\ fix.trace[i].called
                 /\ fix.res.findings[i].fix_code = fix.trace[i].ret
            ELSE /\ ~fix.trace[i].called
                 /\ fix.trace[i].calls = 0
                 /\ fix.res.findings[i].fix_code = fix.args.findings[i].fix_code

\* the first finding is on line 1 and came with a fix_code: the gateway was
\* asked, generate_fix returned None and the fix_code is gone; the second
\* has no line and kept its fix_code
C24_Witness ==
    /\ IsFixBatch
    /\ Len(fix.args.findings) = 2
    /\ fix.args.findings[1].line_number = JNum("1")
    /\ fix.args.findings[1].fix_code = JStr(<<"items">>)
    /\ fix.trace[1].called
    /\ fix.trace[1].calls = 1
    /\ fix.trace[1].ret = None
    /\ fix.res.findings[1].fix_code = None
    /\ fix.args.findings[2].line_number = None
    /\ fix.res.findings[2].fix_code = JStr(<<"items">>)
    /\ fix.res.calls = 1

\* x is the text of a member of the enum
InEnum(x) == x.t = "str" /\ x.v \in {<<name>> : name \in SeverityLevel}

\* the raw element is no mapping, or has a severity key whose value is not
\* in the enum
Dropped(rec) ==
    \/ rec.t # "obj"
    \/ ~Absent(rec, "severity") /\ ~InEnum(DictGet(rec, "severity", JNull))

\* what is in rec besides the severity is valid
SeverityApart(rec) == FindingValid([FindingArgs(rec) EXCEPT !.severity = JStr(<<"info">>)])

\* the finding kept for rec: severity info when rec has no severity key
KeptAs(rec) ==
    [FindingArgs(rec) EXCEPT !.severity = IF Absent(rec, "severity") THEN JStr(<<"info">>)
                                          ELSE DictGet(rec, "severity", JNull)]

RECURSIVE KeptOf(_)
\* the findings kept of the raw elements, each judged by itself
KeptOf(recs) ==
    IF recs = <<>> THEN <<>>
    ELSE (IF Dropped(Head(recs)) \/ ~SeverityApart(Head(recs)) THEN <<>>
          ELSE <<KeptAs(Head(recs))>>) \o KeptOf(Tail(recs))

\* C25: a raw record without a severity key is kept with severity info; a
\* record whose severity is present but null, differently cased or
\* otherwise outside the enum is dropped; an element of findings that is no
\* mapping is dropped; the other records are not affected.
C25_SeverityDefaultOrDrop ==
    (IsParseCall /\ out.path \in {"parsed", "repaired"} /\ RawFindings.t = "arr") =>
        out.resp.findings = KeptOf(RawFindings.v)

\* of a null severity, no severity and "Medium" only the record without a
\* severity key was kept, as info
C25_Witness ==
    /\ IsParseCall
    /\ out.path = "parsed"
    /\ RawFindings.t = "arr"
    /\ Len(RawFindings.v) = 3
    /\ \A k \in 1..3 : RawFindings.v[k].t = "obj"
    /\ DictGet(RawFindings.v[1], "severity", JStr(<<>>)) = JNull
    /\ Absent(RawFindings.v[2], "severity")
    /\ DictGet(RawFindings.v[3], "severity", JNull) = JStr(<<"Medium">>)
    /\ Len(out.resp.findings) = 1
    /\ out.resp.findings[1].severity = JStr(<<"info">>)
    /\ out.resp.findings[1].title = JStr(<<"D">>)

\* the source lines lo..hi (1-based, both included) of the code, joined
SourceLines(code_content, lo, hi) ==
    Join([k \in 1..(hi - lo + 1) |-> Split(code_content, NL)[lo + k - 1]], NL)

\* the snippet of a finding on line n of L lines is the run of source lines
\* from max(1, n-1) to min(L, n+2), which lies within the file and holds
\* line n
RunAround(snippet, code_content, n, L) ==
    /\ 1 <= Max({1, n - 1})
    /\ Max({1, n - 1}) <= n
    /\ n <= Min({L, n + 2})
    /\ Min({L, n + 2}) <= L
    /\ snippet = SourceLines(code_content, Max({1, n - 1}), Min({L, n + 2}))

\* C26: for every finding with line_number n in 1..L, L the number of lines
\* of the code, the snippet passed to generate_fix is the non-empty run of
\* source lines from max(1, n-1) to min(L, n+2), so it holds line n and
\* no index lies outside the file.
C26_SnippetWithinFile ==
    IsFixBatch =>
        \A i \in 1..Len(fix.args.findings) :
            OnALine(fix.args.findings[i], NumLines(fix.args.code_content)) =>
                /\ fix.trace[i].called
                /\ RunAround(fix.trace[i].snippet, fix.args.code_content,
                             IntValue(fix.args.findings[i].line_number.v[1]),
                             NumLines(fix.args.code_content))

\* a finding on line 3 of six lines got lines 2 to 5; one on line 1 got
\* lines 1 to 3
C26_Witness ==
    /\ IsFixBatch
    /\ NumLines(fix.args.code_content) = 6
    /\ Len(fix.args.findings) = 2
    /\ fix.args.findings[1].line_number = JNum("3")
    /\ fix.trace[1].called
    /\ fix.trace[1].snippet = <<"b", NL, "c", NL, "d", NL, "e">>
    /\ fix.args.findings[2].line_number = JNum("1")
    /\ fix.trace[2].snippet = <<"a", NL, "b", NL, "c">>

====
